---- MODULE Spec2Model ----
(***************************************************************************)
(* Model of src/draw/opacity_calculator.rs: the OpacityCalculator of the   *)
(* renderer (dash intervals, along-path and across-path opacity, traveled  *)
(* distance).                                                              *)
(*                                                                         *)
(* f64 values are fixed-point integers: the real number r is the integer   *)
(* r * Scale.  Sums, differences, comparisons, min and max are exact;      *)
(* products, quotients and square roots are rounded down to a multiple of  *)
(* 1/Scale, as f64 rounds them to its own precision.  The inputs are       *)
(* multiples of 1/4, so every product of two inputs is exact.  NaN and the *)
(* infinities are the three values outside the finite range.               *)
(***************************************************************************)
EXTENDS Integers, Sequences, FiniteSets

\* ------------------------------------------------------------------ f64

Scale == 16
NaN == 1000001
PosInf == 1000000
NegInf == -1000000

Half == Scale \div 2
One == Scale
Two == 2 * Scale
\* the real number k/4
Q(k) == k * (Scale \div 4)

IsNaN(x) == x = NaN
IsInf(x) == x = PosInf \/ x = NegInf
Sign(x) == IF x < 0 THEN -1 ELSE IF x > 0 THEN 1 ELSE 0
SignedInf(s) == IF s < 0 THEN NegInf ELSE PosInf

FNeg(a) == IF IsNaN(a) THEN NaN ELSE -a

FAdd(a, b) ==
  IF IsNaN(a) \/ IsNaN(b) THEN NaN
  ELSE IF IsInf(a) THEN (IF IsInf(b) /\ a # b THEN NaN ELSE a)
  ELSE IF IsInf(b) THEN b
  ELSE a + b

FSub(a, b) == FAdd(a, FNeg(b))

FMul(a, b) ==
  IF IsNaN(a) \/ IsNaN(b) THEN NaN
  ELSE IF IsInf(a) \/ IsInf(b)
       THEN (IF a = 0 \/ b = 0 THEN NaN ELSE SignedInf(Sign(a) * Sign(b)))
  ELSE (a * b) \div Scale

FDiv(a, b) ==
  IF IsNaN(a) \/ IsNaN(b) THEN NaN
  ELSE IF IsInf(a) THEN (IF IsInf(b) THEN NaN
                         ELSE SignedInf(Sign(a) * (IF b < 0 THEN -1 ELSE 1)))
  ELSE IF IsInf(b) THEN 0
  ELSE IF b = 0 THEN (IF a = 0 THEN NaN ELSE SignedInf(Sign(a)))
  ELSE (a * Scale) \div b

\* f64 % f64: the remainder of the truncated division, NaN for x % 0
FRem(a, b) ==
  IF IsNaN(a) \/ IsNaN(b) \/ IsInf(a) \/ b = 0 THEN NaN
  ELSE IF IsInf(b) THEN a
  ELSE LET m == IF b < 0 THEN -b ELSE b
       IN IF a >= 0 THEN a % m ELSE -((-a) % m)

\* f64::min and f64::max return the other argument when one is NaN
FMin(a, b) ==
  IF IsNaN(a) THEN b ELSE IF IsNaN(b) THEN a ELSE IF a < b THEN a ELSE b

FMax(a, b) ==
  IF IsNaN(a) THEN b ELSE IF IsNaN(b) THEN a ELSE IF a > b THEN a ELSE b

\* every comparison with NaN is false
FLt(a, b) == ~IsNaN(a) /\ ~IsNaN(b) /\ a < b
FLe(a, b) == ~IsNaN(a) /\ ~IsNaN(b) /\ a <= b
FGt(a, b) == FLt(b, a)

Isqrt(n) == CHOOSE r \in 0..n : r * r <= n /\ n < (r + 1) * (r + 1)

FSqrt(a) ==
  IF IsNaN(a) \/ a < 0 THEN NaN
  ELSE IF a = PosInf THEN PosInf
  ELSE Isqrt(a * Scale)

FPowi2(a) == FMul(a, a)

\* Option<T>
None == <<>>
Some(x) == <<x>>
IsSome(o) == o # <<>>
Unwrap(o) == o[1]

\* ------------------------------------------------------- DashSegment

\* DashSegment with a leading feather that is not kept one unit wide
DashSegment_unclamped(start, end, original_endpoints) ==
  LET midpoint == FDiv(FAdd(start, end), Two)
  IN [start_from |-> FMin(FSub(start, Half), midpoint),
      start_to |-> FMin(FAdd(start, Half), midpoint),
      end_from |-> FMax(FSub(end, Half), midpoint),
      end_to |-> FMax(FAdd(end, Half), FAdd(midpoint, One)),
      opacity_mul |-> FMin(FSub(end, start), One),
      original_endpoints |-> original_endpoints]

\* lines 128..137: one interval from the (cap-extended) span and the
\* original endpoints
DashSegment(start, end, original_endpoints) ==
  LET midpoint == FDiv(FAdd(start, end), Two)
  IN [start_from |-> FMin(FSub(start, Half), FSub(midpoint, One)),
      start_to |-> FMin(FAdd(start, Half), midpoint),
      end_from |-> FMax(FSub(end, Half), midpoint),
      end_to |-> FMax(FAdd(end, Half), FAdd(midpoint, One)),
      opacity_mul |-> FMin(FSub(end, start), One),
      original_endpoints |-> original_endpoints]

\* the loop body of compute_segments for one index; acc is
\* [segments, len_before, panic].  dashes[idx] panics when idx is out of
\* bounds, which ends the loop and the constructor.
compute_segments_body(half_line_width, dashes, line_cap, idx, acc) ==
  LET dash == dashes[idx + 1]
      start0 == acc.len_before
      len1 == IF idx # 0 \/ acc.segments = <<>>
              THEN FAdd(acc.len_before, dash)
              ELSE acc.len_before
      end0 == FAdd(start0, dash)
      original_endpoints == IF line_cap = "Round"
                            THEN Some(<<start0, end0>>)
                            ELSE None
      extend == line_cap \in {"Square", "Round"}
      start == IF extend THEN FSub(start0, half_line_width) ELSE start0
      end == IF extend THEN FAdd(end0, half_line_width) ELSE end0
  IN IF idx % 2 # 0
     THEN [acc EXCEPT !.len_before = len1]
     ELSE [acc EXCEPT !.len_before = len1,
                      !.segments = Append(acc.segments,
                          DashSegment(start, end, original_endpoints))]

compute_segments_step(half_line_width, dashes, line_cap, idx, acc) ==
  IF idx >= Len(dashes)
  THEN [acc EXCEPT !.panic = TRUE]
  ELSE compute_segments_body(half_line_width, dashes, line_cap, idx, acc)

RECURSIVE compute_segments_loop(_, _, _, _, _)
compute_segments_loop(half_line_width, dashes, line_cap, idxs, acc) ==
  IF idxs = <<>> \/ acc.panic THEN acc
  ELSE compute_segments_loop(
         half_line_width, dashes, line_cap, Tail(idxs),
         compute_segments_step(half_line_width, dashes, line_cap,
                               Head(idxs), acc))

\* dash_indexes without the second visit of the first dash
dash_indexes_once(dashes) == [i \in 1..Len(dashes) |-> i - 1]

\* (0..dashes.len()).chain(0..1)
dash_indexes(dashes) == [i \in 1..Len(dashes) |-> i - 1] \o <<0>>

compute_segments(half_line_width, dashes, line_cap) ==
  compute_segments_loop(half_line_width, dashes, line_cap,
                        dash_indexes(dashes),
                        [segments |-> <<>>, len_before |-> 0, panic |-> FALSE])

\* OpacityCalculator::new; dashes is None or Some(sequence)
new(line_width, dashes, line_cap) ==
  LET half_line_width == FDiv(line_width, Two)
      built == IF IsSome(dashes)
               THEN compute_segments(half_line_width, Unwrap(dashes), line_cap)
               ELSE [segments |-> <<>>, len_before |-> 0, panic |-> FALSE]
  IN [half_line_width |-> half_line_width,
      dashes |-> built.segments,
      total_dash_len |-> built.len_before,
      traveled_distance |-> 0,
      panic |-> built.panic]

\* ------------------------------------------------------------ queries

get_opacity_by_segment(dist, segment) ==
  LET base_opacity ==
        IF FLt(dist, segment.start_from) THEN None
        ELSE IF FLe(dist, segment.start_to)
             THEN Some(FDiv(FSub(dist, segment.start_from),
                            FSub(segment.start_to, segment.start_from)))
        ELSE IF FLt(dist, segment.end_from) THEN Some(One)
        ELSE IF FLe(dist, segment.end_to)
             THEN Some(FDiv(FSub(segment.end_to, dist),
                            FSub(segment.end_to, segment.end_from)))
        ELSE None
  IN IF IsSome(base_opacity)
     THEN Some(FMul(segment.opacity_mul, Unwrap(base_opacity)))
     ELSE None

get_distance_in_cap(dist, segment) ==
  IF IsSome(segment.original_endpoints)
  THEN LET a == Unwrap(segment.original_endpoints)[1]
           b == Unwrap(segment.original_endpoints)[2]
       IN IF FLt(dist, a) THEN Some(FSub(a, dist))
          ELSE IF FLe(dist, b) THEN None
          ELSE Some(FSub(dist, b))
  ELSE None

\* get_opacity_by_center_distance with a feather that ends a whole unit
\* beyond the half width
get_opacity_by_center_distance_wide(center_distance, half_line_width) ==
  LET feather_from == FMax(FSub(half_line_width, Half), 0)
      feather_to == FMax(FAdd(half_line_width, One), One)
      feather_dist == FSub(feather_to, feather_from)
      opacity_mul == FMin(FMul(Two, half_line_width), One)
  IN FMul(opacity_mul,
          IF FLt(center_distance, feather_from) THEN One
          ELSE IF FLt(center_distance, feather_to)
               THEN FDiv(FSub(feather_to, center_distance), feather_dist)
          ELSE 0)

get_opacity_by_center_distance(center_distance, half_line_width) ==
  LET feather_from == FMax(FSub(half_line_width, Half), 0)
      feather_to == FMax(FAdd(half_line_width, Half), One)
      feather_dist == FSub(feather_to, feather_from)
      opacity_mul == FMin(FMul(Two, half_line_width), One)
  IN FMul(opacity_mul,
          IF FLt(center_distance, feather_from) THEN One
          ELSE IF FLt(center_distance, feather_to)
               THEN FDiv(FSub(feather_to, center_distance), feather_dist)
          ELSE 0)

\* dist_rem that is not reduced modulo the total dash length
dist_rem_unreduced(self, start_distance) ==
  FAdd(self.traveled_distance, start_distance)

\* (self.traveled_distance + start_distance) % self.total_dash_len
dist_rem(self, start_distance) ==
  FRem(FAdd(self.traveled_distance, start_distance), self.total_dash_len)

\* the filter_map of get_opacity_by_start_distance: the (index, opacity)
\* of the segments whose opacity at dist is defined, in order
RECURSIVE filter_map(_, _, _)
filter_map(dashes, dist, i) ==
  IF i > Len(dashes) THEN <<>>
  ELSE LET op == get_opacity_by_segment(dist, dashes[i])
       IN (IF IsSome(op) THEN << <<i, Unwrap(op)>> >> ELSE <<>>)
          \o filter_map(dashes, dist, i + 1)

\* cmp_greater with the comparison reversed (min_by for max_by)
cmp_greater_reversed(x, y) == FLt(x[2], y[2])

\* x.1.partial_cmp(&y.1).unwrap_or(Ordering::Equal) = Ordering::Greater
cmp_greater(x, y) == FGt(x[2], y[2])

\* Iterator::max_by folds with: Greater => x, _ => y (the last of several
\* equal maxima)
RECURSIVE max_by_fold(_, _)
max_by_fold(best, rest) ==
  IF rest = <<>> THEN best
  ELSE max_by_fold(IF cmp_greater(best, Head(rest)) THEN best ELSE Head(rest),
                   Tail(rest))

max_by(items) ==
  IF items = <<>> THEN None ELSE Some(max_by_fold(Head(items), Tail(items)))

get_opacity_by_start_distance(self, start_distance) ==
  IF self.dashes = <<>>
  THEN [opacity |-> One, distance_in_cap |-> None]
  ELSE LET rem == dist_rem(self, start_distance)
           best_dash_with_opacity == max_by(filter_map(self.dashes, rem, 1))
       IN [opacity |-> IF IsSome(best_dash_with_opacity)
                       THEN Unwrap(best_dash_with_opacity)[2]
                       ELSE 0,
           distance_in_cap |->
             IF IsSome(best_dash_with_opacity)
             THEN get_distance_in_cap(
                    rem, self.dashes[Unwrap(best_dash_with_opacity)[1]])
             ELSE None]

\* calculate's half_line_width: the cap distance mapped through the square
\* root, or self.half_line_width
effective_half_line_width(self, distance_in_cap) ==
  IF IsSome(distance_in_cap)
  THEN FSqrt(FSub(FPowi2(self.half_line_width),
                  FPowi2(Unwrap(distance_in_cap))))
  ELSE self.half_line_width

\* calculate whose is_in_line also holds at an across-path opacity of 0
calculate_in_line_at_zero(self, center_distance, start_distance) ==
  LET sd == get_opacity_by_start_distance(self, start_distance)
      half_line_width == effective_half_line_width(self, sd.distance_in_cap)
      cd == get_opacity_by_center_distance(center_distance, half_line_width)
  IN [opacity |-> FMin(sd.opacity, cd),
      is_in_line |-> FLe(0, cd)]

calculate(self, center_distance, start_distance) ==
  LET sd == get_opacity_by_start_distance(self, start_distance)
      half_line_width == effective_half_line_width(self, sd.distance_in_cap)
      cd == get_opacity_by_center_distance(center_distance, half_line_width)
  IN [opacity |-> FMin(sd.opacity, cd),
      is_in_line |-> FGt(cd, 0)]

\* add_traveled_distance that assigns the distance instead of adding it
add_traveled_distance_assign(self, distance) ==
  [self EXCEPT !.traveled_distance = distance]

add_traveled_distance(self, distance) ==
  [self EXCEPT !.traveled_distance = FAdd(self.traveled_distance, distance)]

\* ------------------------------------------------------------- bounds

\* a dash pattern has at most MaxDashes entries
MaxDashes == 3
\* add_traveled_distance is called while the sum stays within MaxTravel
\* quarter units
MaxTravel == 20
\* calculate's center_distance is at most MaxCenter quarter units
MaxCenter == 4

RECURSIVE SeqsUpTo(_, _)
SeqsUpTo(S, n) ==
  IF n = 0 THEN {<<>>}
  ELSE LET shorter == SeqsUpTo(S, n - 1)
       IN shorter \cup {Append(s, x) : s \in shorter, x \in S}

\* Option<Vec<f64>> over the lengths in S
DashPatterns(S) == {None} \cup {Some(p) : p \in SeqsUpTo(S, MaxDashes)}

LineCaps == {"None", "Butt", "Square", "Round"}

\* the configurations of the calculators whose calls are followed: line
\* widths 0, 0.5 and 1, dashes of length 0.5 and 1.5
LineWidths == {Q(0), Q(2), Q(4)}
DashLens == {Q(2), Q(6)}
CenterDistances == {Q(k) : k \in 0..MaxCenter}
StartDistances == {Q(0), Q(1)}

\* the configurations new is applied to: also a line width of 2 and dashes
\* of length 0 and 1
NewLineWidths == LineWidths \cup {Q(8)}
NewDashLens == DashLens \cup {Q(0), Q(4)}

\* -------------------------------------------------------------- state

VARIABLES
  half_line_width,     \* OpacityCalculator.half_line_width
  dashes,              \* OpacityCalculator.dashes
  total_dash_len,      \* OpacityCalculator.total_dash_len
  traveled_distance,   \* OpacityCalculator.traveled_distance
  config,              \* the arguments of new
  pc,                  \* "args": new is to be called; "ready": the
                       \* calculator exists; "panicked": new panicked
  added,               \* the sum of the add_traveled_distance arguments
  ret                  \* the last call and what it returned

vars == <<half_line_width, dashes, total_dash_len, traveled_distance,
          config, pc, added, ret>>

Self == [half_line_width |-> half_line_width,
         dashes |-> dashes,
         total_dash_len |-> total_dash_len,
         traveled_distance |-> traveled_distance]

Config(line_width, pattern, line_cap) ==
  [line_width |-> line_width, dashes |-> pattern, line_cap |-> line_cap]

\* the calculator new(config) returns, and whether new returned
Constructed(cfg) ==
  LET self == new(cfg.line_width, cfg.dashes, cfg.line_cap)
  IN /\ half_line_width = self.half_line_width
     /\ dashes = self.dashes
     /\ total_dash_len = self.total_dash_len
     /\ traveled_distance = self.traveled_distance
     /\ pc = IF self.panic THEN "panicked" ELSE "ready"

\* the state after construction
Init ==
  \E line_width \in LineWidths, pattern \in DashPatterns(DashLens),
     line_cap \in LineCaps :
    /\ config = Config(line_width, pattern, line_cap)
    /\ Constructed(config)
    /\ added = 0
    /\ ret = [op |-> "new"]

Calculate(center_distance, start_distance) ==
  /\ pc = "ready"
  /\ ret' = [op |-> "calculate",
             center_distance |-> center_distance,
             start_distance |-> start_distance,
             data |-> calculate(Self, center_distance, start_distance)]
  /\ UNCHANGED <<half_line_width, dashes, total_dash_len, traveled_distance,
                 config, pc, added>>

AddTraveledDistance(distance) ==
  /\ pc = "ready"
  /\ added + distance <= Q(MaxTravel)
  /\ LET self == add_traveled_distance(Self, distance)
     IN /\ half_line_width' = self.half_line_width
        /\ dashes' = self.dashes
        /\ total_dash_len' = self.total_dash_len
        /\ traveled_distance' = self.traveled_distance
  /\ added' = added + distance
  /\ ret' = [op |-> "add_traveled_distance", distance |-> distance]
  /\ UNCHANGED <<config, pc>>

\* the lengths of the rendered path segments: half a unit, or one whole
\* period of the dash pattern
SegmentLengths == {Q(2), total_dash_len}

Next ==
  \/ \E c \in CenterDistances, s \in StartDistances : Calculate(c, s)
  \/ \E d \in SegmentLengths : AddTraveledDistance(d)

Spec == Init /\ [][Next]_vars

\* ------------------------------------------------ construction alone

\* the arguments of new are chosen, new is not yet called
InitNew ==
  \E line_width \in NewLineWidths, pattern \in DashPatterns(NewDashLens),
     line_cap \in LineCaps :
    /\ config = Config(line_width, pattern, line_cap)
    /\ half_line_width = 0
    /\ dashes = <<>>
    /\ total_dash_len = 0
    /\ traveled_distance = 0
    /\ pc = "args"
    /\ added = 0
    /\ ret = [op |-> "args"]

New ==
  /\ pc = "args"
  /\ LET self == new(config.line_width, config.dashes, config.line_cap)
     IN /\ half_line_width' = self.half_line_width
        /\ dashes' = self.dashes
        /\ total_dash_len' = self.total_dash_len
        /\ traveled_distance' = self.traveled_distance
        /\ pc' = IF self.panic THEN "panicked" ELSE "ready"
  /\ ret' = [op |-> "new"]
  /\ UNCHANGED <<config, added>>

NextNew == New

SpecNew == InitNew /\ [][NextNew]_vars

\* ------------------------------------------------------------- claims

\* the last call was calculate
Called == pc = "ready" /\ ret.op = "calculate"
\* what that call computed on its way: the along-path resolution, the half
\* width handed to the across-path resolver, the across-path opacity
Along == get_opacity_by_start_distance(Self, ret.start_distance)
EffectiveHalfWidthOf(along) ==
  effective_half_line_width(Self, along.distance_in_cap)
AcrossOf(along) ==
  get_opacity_by_center_distance(ret.center_distance,
                                 EffectiveHalfWidthOf(along))
EffectiveHalfWidth == EffectiveHalfWidthOf(Along)
Across == AcrossOf(Along)

\* C1: with a Round cap, when the cap distance of the sample exceeds
\* half_line_width, no NaN reaches the across-path resolver, the across-path
\* opacity is 0 and calculate returns opacity 0 and is_in_line false.
C1_OutsideRoundCapIsTransparent ==
  (Called /\ config.line_cap = "Round")
  => LET along == Along
     IN (/\ IsSome(along.distance_in_cap)
         /\ FGt(Unwrap(along.distance_in_cap), half_line_width))
        => /\ ~IsNaN(EffectiveHalfWidthOf(along))
           /\ AcrossOf(along) = 0
           /\ ret.data.opacity = 0
           /\ ret.data.is_in_line = FALSE

\* C2: once new was called with an absent or an empty dash pattern, it has
\* returned a calculator without dash intervals, whose along-path opacity
\* is 1.0 with no cap distance at every distance.
C2_EmptyPatternIsSolid ==
  (pc # "args" /\ (config.dashes = None \/ config.dashes = Some(<<>>)))
  => /\ pc = "ready"
     /\ dashes = <<>>
     /\ (ret.op = "calculate"
         => Along = [opacity |-> One, distance_in_cap |-> None])

\* C3, as claimed: the across-path opacity is 0 at every center_distance
\* >= effective_half_width + 0.5, for every effective_half_width >= 0.
C3_ZeroFromHalfWidthPlusHalf ==
  Called
  => LET effective_half_width == EffectiveHalfWidth
     IN (/\ FLe(0, effective_half_width)
         /\ FLe(FAdd(effective_half_width, Half), ret.center_distance))
        => get_opacity_by_center_distance(ret.center_distance,
                                          effective_half_width) = 0

\* C3, amended: the across-path opacity is 0 at every center_distance
\* >= max(effective_half_width + 0.5, 1.0), for every effective_half_width
\* >= 0.
C3_ZeroFromFeatherTo ==
  Called
  => LET effective_half_width == EffectiveHalfWidth
     IN (/\ FLe(0, effective_half_width)
         /\ FLe(FMax(FAdd(effective_half_width, Half), One),
                ret.center_distance))
        => get_opacity_by_center_distance(ret.center_distance,
                                          effective_half_width) = 0

\* a sub-pixel half width, queried at the end of its feather
C3_Witness ==
  /\ Called
   /\ FLt(0, EffectiveHalfWidth)
   /\ FLt(EffectiveHalfWidth, Half)
   /\ ret.center_distance = One
   /\ Across = 0

\* C4: with an odd number of dashes an entry that is on in one repetition
\* is off in the next.  Stated for the first entry, 1.5 long, of a pattern
\* without cap extension: the middle of its second occurrence, 0.75 past
\* the end of the first period, is off.
C4_OddPatternAlternates ==
  (/\ Called
   /\ IsSome(config.dashes)
   /\ Len(Unwrap(config.dashes)) % 2 = 1
   /\ config.line_cap \in {"None", "Butt"}
   /\ Unwrap(config.dashes)[1] = Q(6)
   /\ FAdd(traveled_distance, ret.start_distance)
        = FAdd(total_dash_len, Q(3)))
  => Along.opacity = 0

\* C5: with a non-empty dash pattern of total length L, calculate returns
\* after add_traveled_distance(L) what it returned before, and the
\* along-path opacity at d + L is the one at d.
C5_PeriodIsTotalDashLen ==
  (Called /\ dashes # <<>>)
  => /\ calculate(add_traveled_distance(Self, total_dash_len),
                  ret.center_distance, ret.start_distance) = ret.data
     /\ get_opacity_by_start_distance(
          Self, FAdd(ret.start_distance, total_dash_len)).opacity
        = Along.opacity

\* a query in a feather of the second period or later
C5_Witness ==
  /\ Called
  /\ dashes # <<>>
  /\ traveled_distance >= total_dash_len
  /\ total_dash_len > 0
  /\ 0 < Along.opacity
  /\ Along.opacity < One

\* C6: traveled_distance is the sum of the add_traveled_distance arguments,
\* no call changes another field, and calculate(c, s) returns what a fresh
\* calculator of the same configuration returns for calculate(c, s + sum).
C6_PhaseIsContinuous ==
  pc = "ready"
  => LET fresh == new(config.line_width, config.dashes, config.line_cap)
     IN /\ traveled_distance = added
        /\ half_line_width = fresh.half_line_width
        /\ dashes = fresh.dashes
        /\ total_dash_len = fresh.total_dash_len
        /\ (ret.op = "calculate"
            => ret.data = calculate(fresh, ret.center_distance,
                                    FAdd(ret.start_distance, added)))

\* a visible sample of a dashed line, after an advance, at a start distance
\* that is not 0
C6_Witness ==
  /\ Called
  /\ dashes # <<>>
  /\ added > 0
  /\ ret.start_distance > 0
  /\ ret.data.opacity > 0

\* C7: calculate returns an opacity in [0, 1] that is the minimum of the
\* along-path and the across-path opacity, and is_in_line exactly when the
\* across-path opacity is greater than 0.
C7_OpacityIsMinInUnitRange ==
  Called
  => LET along == Along
         across == AcrossOf(along)
     IN /\ 0 <= ret.data.opacity
        /\ ret.data.opacity <= One
        /\ ret.data.opacity = FMin(along.opacity, across)
        /\ ret.data.is_in_line = FGt(across, 0)

\* a sample in line whose opacity the dash pattern decides
C7_Witness ==
  /\ Called
  /\ dashes # <<>>
  /\ ret.data.is_in_line
  /\ 0 < Along.opacity
  /\ Along.opacity < Across
  /\ ret.data.opacity = Along.opacity

RECURSIVE SumSeq(_)
SumSeq(s) == IF s = <<>> THEN 0 ELSE Head(s) + SumSeq(Tail(s))

\* the interval moved along the path by len
Shifted(g, len) ==
  [start_from |-> g.start_from + len,
   start_to |-> g.start_to + len,
   end_from |-> g.end_from + len,
   end_to |-> g.end_to + len,
   opacity_mul |-> g.opacity_mul,
   original_endpoints |->
     IF IsSome(g.original_endpoints)
     THEN Some(<<Unwrap(g.original_endpoints)[1] + len,
                 Unwrap(g.original_endpoints)[2] + len>>)
     ELSE None]

\* C8: for a pattern of n >= 1 dashes total_dash_len is the sum of the n
\* lengths, there are ceil(n/2) + 1 intervals, and the last interval is
\* the first one shifted by total_dash_len.
C8_WrapCopyIsFirstShifted ==
  (pc = "ready" /\ IsSome(config.dashes))
  => LET pattern == Unwrap(config.dashes)
     IN /\ total_dash_len = SumSeq(pattern)
        /\ Len(dashes) = ((Len(pattern) + 1) \div 2) + 1
        /\ dashes[Len(dashes)] = Shifted(dashes[1], total_dash_len)

\* three dashes with round caps: two intervals and the copy
C8_Witness ==
  /\ pc = "ready"
  /\ ret.op = "new"
  /\ IsSome(config.dashes)
  /\ Len(Unwrap(config.dashes)) = 3
  /\ config.line_cap = "Round"
  /\ Len(dashes) = 3
  /\ total_dash_len > 0

\* C9: every interval has start_from < start_to <= midpoint <= end_from <
\* end_to with both feathers exactly 1 wide (midpoint is the middle of
\* start_from and end_to), and its opacity is 0 at start_from and at
\* end_to and opacity_mul at start_to and at end_from.
C9_FeathersAreOneWide ==
  pc = "ready"
  => \A i \in 1..Len(dashes) :
       LET g == dashes[i]
       IN /\ g.start_from < g.start_to
          /\ 2 * g.start_to <= g.start_from + g.end_to
          /\ g.start_from + g.end_to <= 2 * g.end_from
          /\ g.end_from < g.end_to
          /\ g.start_to - g.start_from = One
          /\ g.end_to - g.end_from = One
          /\ get_opacity_by_segment(g.start_from, g) = Some(0)
          /\ get_opacity_by_segment(g.end_to, g) = Some(0)
          /\ get_opacity_by_segment(g.start_to, g) = Some(g.opacity_mul)
          /\ get_opacity_by_segment(g.end_from, g) = Some(g.opacity_mul)

\* the interval of a dash of length 0 that no cap extends, and the
\* interval of a dash shorter than 1
C9_Witness ==
  /\ pc = "ready"
  /\ ret.op = "new"
  /\ \E i \in 1..Len(dashes) :
       dashes[i].start_to = dashes[i].end_from /\ dashes[i].opacity_mul = 0
  /\ \E i \in 1..Len(dashes) :
       0 < dashes[i].opacity_mul /\ dashes[i].opacity_mul < One

\* the opacity of every interval at the reduced distance
OpacitiesAt(rem) ==
  [i \in 1..Len(dashes) |-> get_opacity_by_segment(rem, dashes[i])]

\* C10: the along-path opacity is the maximum of the interval opacities
\* defined at the reduced distance, and the cap distance is the one of an
\* interval that attains it; with no interval defined there the opacity is
\* 0.0 and there is no cap distance.
C10_MaximumDecides ==
  (Called /\ dashes # <<>>)
  => LET rem == dist_rem(Self, ret.start_distance)
         opacities == OpacitiesAt(rem)
         defined == {i \in 1..Len(dashes) : IsSome(opacities[i])}
         along == Along
     IN IF defined = {}
        THEN along = [opacity |-> 0, distance_in_cap |-> None]
        ELSE \E i \in defined :
               /\ \A j \in defined :
                    Unwrap(opacities[j]) <= Unwrap(opacities[i])
               /\ along.opacity = Unwrap(opacities[i])
               /\ along.distance_in_cap = get_distance_in_cap(rem, dashes[i])

\* two overlapping intervals of different opacity, the greater one with a
\* cap distance
C10_Witness ==
  /\ Called
  /\ dashes # <<>>
  /\ LET opacities == OpacitiesAt(dist_rem(Self, ret.start_distance))
     IN \E i, j \in 1..Len(dashes) :
          /\ IsSome(opacities[i])
          /\ IsSome(opacities[j])
          /\ Unwrap(opacities[i]) < Unwrap(opacities[j])
  /\ IsSome(Along.distance_in_cap)

====
